---------------------------- MODULE Spec2Model ----------------------------
(***************************************************************************)
(* The Stutter effect of stutter/src/lib.rs: two RingBuffers (left and     *)
(* right channel) driven by Stutter::process, with the host thread writing *)
(* the raw parameters through PluginParameters::set_parameter while the    *)
(* audio thread runs process.                                              *)
(*                                                                         *)
(* Raw parameter values are f32 in the source; here they are counted in    *)
(* tenths (10 is 1.0).  Samples are f32 in the source; RingBuffer never    *)
(* inspects a sample, so the input streams carry their stream position:    *)
(* the k-th sample of the left channel is k+1, of the right one -(k+1).    *)
(* No input sample is 0, the value the buffers are filled with.            *)
(*                                                                         *)
(* Two further parts of the repository are modelled beside it: the window  *)
(* bookkeeping of MedianFilter (median_filter/src/lib.rs: new, init,       *)
(* process and reset_if_changed) in the variable median_filter, and the    *)
(* host-facing parameter methods of the clipper (clipper/src/lib.rs) in    *)
(* the variable clipper.                                                   *)
(***************************************************************************)
EXTENDS Integers, Sequences, FiniteSets, TLC

\* const MAX_BUFFER_SIZE: usize = 32768 in the source; the model keeps the
\* name and bounds the buffer to a few cells.
MAX_BUFFER_SIZE == 5

\* Samples the host delivers per channel over the whole run (more than
\* MAX_BUFFER_SIZE, so that the needle passes the end of the buffer).
MaxSamples == 6

\* Longest block the host hands to one process call.
MaxBlock == 2

VARIABLES
    raw,                \* RawParameters: the three AtomicFloat fields
    ringbuf_left,       \* Stutter.ringbuf_left
    ringbuf_right,      \* Stutter.ringbuf_right
    last_trigger_state, \* Stutter.last_trigger_state
    pc,                 \* position of the audio thread inside process
    params,             \* process: let params = Parameters::from(..)
    num_samples,        \* process: buffer.samples()
    i,                  \* process: loop index of the running for loop
    pos,                \* samples per channel consumed by the finished calls
    left_output,        \* outputs[0][0..i] of the running / last block
    right_output,       \* outputs[1][0..i] of the running / last block
    fault,              \* the panic that ended the audio thread, or "none"
    call,               \* history: the last RingBuffer::next call
    edge,               \* history: the match arm the running / last block took
    ep_start,           \* history: stream position where the running episode
                        \* (rising edge to falling edge) began
    ep_size,            \* history: the size the running episode has had
                        \* throughout, 0 once it has changed
    ep_grown,           \* history: s1, when the last size change of the
                        \* running episode went from s1 up to the present
                        \* size s2 with needle >= s2; 0 otherwise
    op,                 \* history: the last RingBuffer method called directly
    seen_true,          \* history: some block read trigger = true
    median_filter,      \* the MedianFilter plugin of median_filter/src/lib.rs
                        \* with its RawParameters and its audio thread
    clipper             \* the RawParameters of clipper/src/lib.rs with the
                        \* host callback they notify

vars == <<raw, ringbuf_left, ringbuf_right, last_trigger_state, pc, params,
          num_samples, i, pos, left_output, right_output, fault, call, edge,
          ep_start, ep_size, ep_grown, op, seen_true, median_filter, clipper>>

\* The variables of the Stutter plugin.
stutter_vars == <<raw, ringbuf_left, ringbuf_right, last_trigger_state, pc,
                  params, num_samples, i, pos, left_output, right_output,
                  fault, call, edge, ep_start, ep_size, ep_grown, op,
                  seen_true>>

-----------------------------------------------------------------------------
(* Input streams *)

LeftSample(k) == k + 1
RightSample(k) == 0 - (k + 1)

-----------------------------------------------------------------------------
(* common::ease_in_expo (the source at hand has it as clipper's copy of    *)
(* the function) and impl From<&RawParameters> for Parameters              *)

RECURSIVE Pow2(_)
Pow2(n) == IF n <= 0 THEN 1 ELSE 2 * Pow2(n - 1)

\* ease_in_expo(x) as the fraction num/den; x in tenths, so 10.0 * x is x.
ease_in_expo_num(x) == IF x <= 0 THEN 0 ELSE Pow2(x) - 1
ease_in_expo_den == Pow2(10) - 1

\* `f as usize` for the fraction num/den: truncates, and saturates at 0.
as_usize(num, den) == IF num <= 0 THEN 0 ELSE num \div den

\* clamp without its lower bound: `.min(hi)`.
clamp_upper(x, lo, hi) == IF x > hi THEN hi ELSE x

\* clamp without its upper bound: `.max(lo)`.
clamp_lower(x, lo, hi) == IF x < lo THEN lo ELSE x

clamp(x, lo, hi) == IF x < lo THEN lo ELSE IF x > hi THEN hi ELSE x

\* (ease_in_expo(x) * MAX_BUFFER_SIZE as f32) as usize
requested_size(x) ==
    as_usize(ease_in_expo_num(x) * MAX_BUFFER_SIZE, ease_in_expo_den)

\* The cast without the clamp that follows it.
buffer_size_unclamped(x) == requested_size(x)

buffer_size_of(x) == clamp(requested_size(x), 1, MAX_BUFFER_SIZE)

\* params.trigger.get() > 0.5
trigger_of(x) == x > 5

-----------------------------------------------------------------------------
(* RingBuffer *)

Cells == 0 .. (MAX_BUFFER_SIZE - 1)

\* A constructor that makes the whole buffer the active size.
RingBuffer_new_full(size) ==
    [buffer |-> [c \in Cells |-> 0], needle |-> 0, size |-> MAX_BUFFER_SIZE,
     trigger |-> FALSE]

RingBuffer_new(size) ==
    [buffer |-> [c \in Cells |-> 0], needle |-> 0, size |-> size,
     trigger |-> FALSE]

\* The panic a next() call on rb raises, or "none".
next_fault(rb) ==
    IF ~rb.trigger THEN "none"
    ELSE IF rb.needle < MAX_BUFFER_SIZE /\ rb.needle \notin Cells
        THEN "index"
    ELSE IF rb.size = 0 THEN "div_zero"
    ELSE IF (rb.needle % rb.size) \notin Cells THEN "index"
    ELSE "none"

\* A next() that overwrites the active window: buffer[needle % size] = input.
next_buffer_wrapped(rb, input) ==
    [rb.buffer EXCEPT ![rb.needle % rb.size] = input]

\* A next() that captures the active window only: writes while needle < size.
next_buffer_window(rb, input) ==
    IF rb.needle < rb.size
        THEN [rb.buffer EXCEPT ![rb.needle] = input]
        ELSE rb.buffer

\* A next() that keeps capturing past the end: buffer[needle % capacity].
next_buffer_modulo(rb, input) ==
    [rb.buffer EXCEPT ![rb.needle % MAX_BUFFER_SIZE] = input]

\* The buffer after the conditional write of next().
next_buffer(rb, input) ==
    IF rb.needle < MAX_BUFFER_SIZE
        THEN [rb.buffer EXCEPT ![rb.needle] = input]
        ELSE rb.buffer

\* A next() without its else branch: it plays the buffer whatever the flag.
next_sample_unconditional(rb, input) == rb.buffer[rb.needle % rb.size]

\* A next() that plays the whole buffer instead of the active window.
next_sample_whole_buffer(rb, input) ==
    IF rb.trigger
        THEN next_buffer(rb, input)[rb.needle % MAX_BUFFER_SIZE]
        ELSE input

\* A next() that reads the cell before it writes the input.
next_sample_read_first(rb, input) ==
    IF rb.trigger
        THEN rb.buffer[rb.needle % rb.size]
        ELSE input

\* The value next(input) returns (only used when next_fault(rb) = "none").
next_sample(rb, input) ==
    IF rb.trigger
        THEN next_buffer(rb, input)[rb.needle % rb.size]
        ELSE input

\* A next() that captures whatever the flag.
next_state_always(rb, input) ==
    [rb EXCEPT !.buffer = next_buffer(rb, input), !.needle = rb.needle + 1]

\* The RingBuffer after next(input).
next_state(rb, input) ==
    IF rb.trigger
        THEN [rb EXCEPT !.buffer = next_buffer(rb, input),
                        !.needle = rb.needle + 1]
        ELSE rb

\* A set_size that also clears the buffer.
set_size_clear(rb, new_size) ==
    [rb EXCEPT !.size = new_size, !.buffer = [c \in Cells |-> 0]]

\* A set_size that also restarts the loop.
set_size_restart(rb, new_size) == [rb EXCEPT !.size = new_size, !.needle = 0]

set_size(rb, new_size) == [rb EXCEPT !.size = new_size]

\* A set_triggered that flips the flag.
set_triggered_toggle(rb) == [rb EXCEPT !.needle = 0, !.trigger = ~rb.trigger]

\* A set_triggered that leaves the needle where it is.
set_triggered_keep_needle(rb) == [rb EXCEPT !.trigger = TRUE]

set_triggered(rb) == [rb EXCEPT !.needle = 0, !.trigger = TRUE]

\* A set_untriggered that also rewinds the needle.
set_untriggered_rewind(rb) == [rb EXCEPT !.needle = 0, !.trigger = FALSE]

\* A set_untriggered that does nothing.
set_untriggered_noop(rb) == rb

set_untriggered(rb) == [rb EXCEPT !.trigger = FALSE]

-----------------------------------------------------------------------------
(* The host thread: PluginParameters::set_parameter *)

\* ParameterType::try_from(index): the table's idx column.
try_from(index) ==
    CASE index = 0 -> "wet_dry"
      [] index = 1 -> "trigger"
      [] index = 2 -> "buffer_size"
      [] OTHER -> "Err"

\* The values the host writes to the parameter with this index.
HostValues(index) ==
    CASE index = 0 -> {0, 10}
      [] index = 1 -> {0, 10}
      [] OTHER -> {5, 9, 11}

set_parameter(index, value) ==
    LET parameter == try_from(index) IN
    /\ parameter # "Err"
    /\ raw' = IF raw[parameter] = value THEN raw
              ELSE [raw EXCEPT ![parameter] = value]
    /\ UNCHANGED <<ringbuf_left, ringbuf_right, last_trigger_state, pc, params,
                   num_samples, i, pos, left_output, right_output, fault,
                   call, edge, ep_start, ep_size, ep_grown, op, seen_true>>
    /\ UNCHANGED <<median_filter, clipper>>

-----------------------------------------------------------------------------
(* The audio thread: Stutter::process *)

NoParams == [wet_dry |-> 0, buffer_size |-> 0, trigger |-> FALSE]

NoOp == [name |-> "none", arg |-> 0]

NoCall == [ch |-> "none", index |-> 0, input |-> 0, ret |-> 0, needle |-> 0,
           size |-> 0, trigger |-> FALSE]

\* f32 values that are not finite, kept apart from every finite sample.
PosInf == Pow2(20)
NegInf == 0 - Pow2(20)
NaN == Pow2(21)

Finite(x) == x \notin {PosInf, NegInf, NaN}

\* f32 == : a NaN equals nothing.
f32_eq(a, b) == a # NaN /\ b # NaN /\ a = b

\* f32 * with a finite second factor (a weight).
f32_mul(a, w) ==
    IF a = NaN THEN NaN
    ELSE IF Finite(a) THEN a * w
    ELSE IF w = 0 THEN NaN
    ELSE IF (a = PosInf) = (w > 0) THEN PosInf
    ELSE NegInf

\* f32 +
f32_add(a, b) ==
    IF a = NaN \/ b = NaN THEN NaN
    ELSE IF Finite(a) /\ Finite(b) THEN a + b
    ELSE IF Finite(a) THEN b
    ELSE IF Finite(b) THEN a
    ELSE IF a = b THEN a
    ELSE NaN

\* The mix with the two weights swapped.
mix_swapped(input, out, wet_dry) ==
    f32_add(f32_mul(input, wet_dry), f32_mul(out, 10 - wet_dry))

\* left_input[i] * (1.0 - wet_dry) + out * wet_dry, in tenths of a sample
\* unit (wet_dry is in tenths).
mix(input, out, wet_dry) ==
    f32_add(f32_mul(input, 10 - wet_dry), f32_mul(out, wet_dry))

\* A match on the level of the trigger instead of its edges.
match_level(last, trigger) == IF trigger THEN "rising" ELSE "falling"

\* The arm of `match (self.last_trigger_state, params.trigger)`.
match_edge(last, trigger) ==
    IF ~last /\ trigger THEN "rising"
    ELSE IF last /\ ~trigger THEN "falling"
    ELSE "none"

\* A match whose default arm rewinds the needle.
after_edge_rewind(rb, buffer_size, e) ==
    LET sized == set_size(rb, buffer_size) IN
    IF e = "rising" THEN set_triggered(sized)
    ELSE IF e = "falling" THEN set_untriggered(sized)
    ELSE [sized EXCEPT !.needle = 0]

\* The RingBuffer after the set_size call and the match of process.
after_edge(rb, buffer_size, e) ==
    LET sized == set_size(rb, buffer_size) IN
    IF e = "rising" THEN set_triggered(sized)
    ELSE IF e = "falling" THEN set_untriggered(sized)
    ELSE sized

\* process is entered with a block of n samples per channel; Parameters::from
\* reads wet_dry first.
ProcessBegin(n) ==
    /\ pc = "idle"
    /\ pos + n <= MaxSamples
    /\ pc' = "read_buffer_size"
    /\ params' = [NoParams EXCEPT !.wet_dry = raw.wet_dry]
    /\ num_samples' = n
    /\ i' = 0
    /\ left_output' = <<>>
    /\ right_output' = <<>>
    /\ call' = NoCall
    /\ edge' = "none"
    /\ UNCHANGED <<raw, ringbuf_left, ringbuf_right, last_trigger_state, pos,
                   fault, ep_start, ep_size, ep_grown, op, seen_true>>
    /\ UNCHANGED <<median_filter, clipper>>

\* Parameters::from reads buffer_size.
ProcessReadBufferSize ==
    /\ pc = "read_buffer_size"
    /\ pc' = "read_trigger"
    /\ params' = [params EXCEPT !.buffer_size = buffer_size_of(raw.buffer_size)]
    /\ UNCHANGED <<raw, ringbuf_left, ringbuf_right, last_trigger_state,
                   num_samples, i, pos, left_output, right_output, fault,
                   call, edge, ep_start, ep_size, ep_grown, op, seen_true>>
    /\ UNCHANGED <<median_filter, clipper>>

\* The match applied to the left channel only.
ProcessEdge_left_only ==
    LET trigger == trigger_of(raw.trigger)
        e == match_edge(last_trigger_state, trigger)
        left == after_edge(ringbuf_left, params.buffer_size, e)
    IN
    /\ pc = "read_trigger"
    /\ params' = [params EXCEPT !.trigger = trigger]
    /\ ringbuf_left' = left
    /\ ringbuf_right' = set_size(ringbuf_right, params.buffer_size)
    /\ pc' = IF num_samples = 0 THEN "end" ELSE "left"
    /\ edge' = e
    /\ ep_start' = IF e = "rising" THEN pos
                   ELSE IF e = "falling" THEN 0
                   ELSE ep_start
    /\ ep_size' = IF e = "rising" THEN left.size
                  ELSE IF e = "falling" THEN 0
                  ELSE IF left.size = ringbuf_left.size THEN ep_size
                  ELSE 0
    /\ ep_grown' = IF e # "none" \/ ~last_trigger_state THEN 0
                   ELSE IF left.size = ringbuf_left.size THEN ep_grown
                   ELSE IF /\ left.size > ringbuf_left.size
                           /\ ringbuf_left.needle >= left.size
                       THEN ringbuf_left.size
                   ELSE 0
    /\ seen_true' = (seen_true \/ trigger)
    /\ UNCHANGED <<raw, last_trigger_state, num_samples, i, pos, left_output,
                   right_output, fault, call, op>>
    /\ UNCHANGED <<median_filter, clipper>>

\* Parameters::from reads trigger; then the two set_size calls and the match
\* on (last_trigger_state, params.trigger), none of which reads raw again.
ProcessEdge ==
    LET trigger == trigger_of(raw.trigger)
        e == match_edge(last_trigger_state, trigger)
        left == after_edge(ringbuf_left, params.buffer_size, e)
    IN
    /\ pc = "read_trigger"
    /\ params' = [params EXCEPT !.trigger = trigger]
    /\ ringbuf_left' = left
    /\ ringbuf_right' = after_edge(ringbuf_right, params.buffer_size, e)
    /\ pc' = IF num_samples = 0 THEN "end" ELSE "left"
    /\ edge' = e
    /\ ep_start' = IF e = "rising" THEN pos
                   ELSE IF e = "falling" THEN 0
                   ELSE ep_start
    /\ ep_size' = IF e = "rising" THEN left.size
                  ELSE IF e = "falling" THEN 0
                  ELSE IF left.size = ringbuf_left.size THEN ep_size
                  ELSE 0
    /\ ep_grown' = IF e # "none" \/ ~last_trigger_state THEN 0
                   ELSE IF left.size = ringbuf_left.size THEN ep_grown
                   ELSE IF /\ left.size > ringbuf_left.size
                           /\ ringbuf_left.needle >= left.size
                       THEN ringbuf_left.size
                   ELSE 0
    /\ seen_true' = (seen_true \/ trigger)
    /\ UNCHANGED <<raw, last_trigger_state, num_samples, i, pos, left_output,
                   right_output, fault, call, op>>
    /\ UNCHANGED <<median_filter, clipper>>

\* The ratio as the host has it now, not as the block read it.
process_wet_dry_live == raw.wet_dry

\* let wet_dry = params.wet_dry;
process_wet_dry == params.wet_dry

CallOf(ch, rb, input) ==
    [ch |-> ch, index |-> i, input |-> input, ret |-> next_sample(rb, input),
     needle |-> rb.needle, size |-> rb.size, trigger |-> rb.trigger]

\* One iteration of `for i in 0..num_samples` over the left channel.
ProcessLeft ==
    LET input == LeftSample(pos + i) IN
    /\ pc = "left"
    /\ IF next_fault(ringbuf_left) # "none"
       THEN /\ fault' = next_fault(ringbuf_left)
            /\ pc' = "panicked"
            /\ UNCHANGED <<ringbuf_left, left_output, i, call>>
       ELSE /\ ringbuf_left' = next_state(ringbuf_left, input)
            /\ left_output' = Append(left_output,
                   mix(input, next_sample(ringbuf_left, input), process_wet_dry))
            /\ call' = CallOf("left", ringbuf_left, input)
            /\ i' = IF i + 1 = num_samples THEN 0 ELSE i + 1
            /\ pc' = IF i + 1 = num_samples THEN "right" ELSE "left"
            /\ UNCHANGED fault
    /\ UNCHANGED <<raw, ringbuf_right, last_trigger_state, params, num_samples,
                   pos, right_output, edge, ep_start, ep_size,
                   ep_grown, op, seen_true>>
    /\ UNCHANGED <<median_filter, clipper>>

\* One iteration of `for i in 0..num_samples` over the right channel.
ProcessRight ==
    LET input == RightSample(pos + i) IN
    /\ pc = "right"
    /\ IF next_fault(ringbuf_right) # "none"
       THEN /\ fault' = next_fault(ringbuf_right)
            /\ pc' = "panicked"
            /\ UNCHANGED <<ringbuf_right, right_output, i, call>>
       ELSE /\ ringbuf_right' = next_state(ringbuf_right, input)
            /\ right_output' = Append(right_output,
                   mix(input, next_sample(ringbuf_right, input),
                       process_wet_dry))
            /\ call' = CallOf("right", ringbuf_right, input)
            /\ i' = IF i + 1 = num_samples THEN 0 ELSE i + 1
            /\ pc' = IF i + 1 = num_samples THEN "end" ELSE "right"
            /\ UNCHANGED fault
    /\ UNCHANGED <<raw, ringbuf_left, last_trigger_state, params, num_samples,
                   pos, left_output, edge, ep_start, ep_size,
                   ep_grown, op, seen_true>>
    /\ UNCHANGED <<median_filter, clipper>>

\* A process that returns without remembering the trigger it read.
ProcessEnd_forget ==
    /\ pc = "end"
    /\ last_trigger_state' = last_trigger_state
    /\ pc' = "idle"
    /\ params' = NoParams
    /\ pos' = pos + num_samples
    /\ num_samples' = 0
    /\ left_output' = <<>>
    /\ right_output' = <<>>
    /\ call' = NoCall
    /\ edge' = "none"
    /\ UNCHANGED <<raw, ringbuf_left, ringbuf_right, i, fault, ep_start,
                   ep_size, ep_grown, op, seen_true>>
    /\ UNCHANGED <<median_filter, clipper>>

\* self.last_trigger_state = params.trigger; process returns, its locals die
\* and the host takes the output block.
ProcessEnd ==
    /\ pc = "end"
    /\ last_trigger_state' = params.trigger
    /\ pc' = "idle"
    /\ params' = NoParams
    /\ pos' = pos + num_samples
    /\ num_samples' = 0
    /\ left_output' = <<>>
    /\ right_output' = <<>>
    /\ call' = NoCall
    /\ edge' = "none"
    /\ UNCHANGED <<raw, ringbuf_left, ringbuf_right, i, fault, ep_start,
                   ep_size, ep_grown, op, seen_true>>
    /\ UNCHANGED <<median_filter, clipper>>

-----------------------------------------------------------------------------
(* MedianFilter of median_filter/src/lib.rs. Its raw window_size is        *)
(* counted in thousandths (500 is 0.5). The two Filter<f32> come from the  *)
(* median crate: a Filter keeps the last `size` samples it consumed. The    *)
(* median values process writes to its outputs play no part in what        *)
(* follows and are left out.                                               *)

\* window_size: ((params.window_size.get() * 100.0) as usize).max(1)
window_size_of(x) ==
    LET n == as_usize(x * 100, 1000) IN IF n < 1 THEN 1 ELSE n

\* Filter::new(size): an empty filter with a window of size samples.
Filter_new(size) == [size |-> size, samples |-> <<>>]

\* Filter::consume(x): x enters the window, the oldest sample leaves a full
\* one.
Filter_consume(f, x) ==
    [f EXCEPT !.samples = IF Len(f.samples) < f.size
                              THEN Append(f.samples, x)
                              ELSE Append(Tail(f.samples), x)]

\* MedianFilter::new, with RawParameters::default (window_size 0.5).
MedianFilter_new ==
    [params |-> [window_size |-> 500],
     left_filter |-> Filter_new(50),
     right_filter |-> Filter_new(50),
     last_window_size |-> 50,
     pc |-> "idle",
     num_samples |-> 0,
     i |-> 0,
     pos |-> 0,
     window_read |-> 0]

\* MedianFilter::init: self.last_window_size = params.window_size
MedianFilter_init(mf) ==
    [mf EXCEPT !.last_window_size = window_size_of(mf.params.window_size)]

\* A reset_if_changed that rebuilds the filters at every call.
reset_always(mf) ==
    LET w == window_size_of(mf.params.window_size) IN
    [mf EXCEPT !.left_filter = Filter_new(w),
               !.right_filter = Filter_new(w),
               !.last_window_size = w]

\* MedianFilter::reset_if_changed
reset_if_changed(mf) ==
    LET w == window_size_of(mf.params.window_size) IN
    IF w # mf.last_window_size
        THEN [mf EXCEPT !.left_filter = Filter_new(w),
                        !.right_filter = Filter_new(w),
                        !.last_window_size = w]
        ELSE mf

\* The raw window_size values the host writes: 0.0, 0.015, 0.025, the default
\* 0.5 and 0.8, for windows of 1, 1, 2, 50 and 80 samples.
MF_HostValues == {0, 15, 25, 500, 800}

\* set_parameter(1, value) on the RawParameters of the MedianFilter.
MF_set_parameter(value) ==
    /\ median_filter.params.window_size # value
    /\ median_filter' = [median_filter EXCEPT !.params.window_size = value]
    /\ UNCHANGED <<stutter_vars, clipper>>

\* The host calls init between process calls.
MF_init ==
    /\ median_filter.pc = "idle"
    /\ median_filter' = MedianFilter_init(median_filter)
    /\ UNCHANGED <<stutter_vars, clipper>>

\* process is entered with a block of n samples per channel and calls
\* reset_if_changed; window_read is the window size that call derived.
MF_ProcessBegin(n) ==
    /\ median_filter.pc = "idle"
    /\ median_filter.pos + n <= MaxSamples
    /\ median_filter' =
           [reset_if_changed(median_filter) EXCEPT
                !.pc = IF n = 0 THEN "end" ELSE "left",
                !.num_samples = n,
                !.i = 0,
                !.window_read = window_size_of(median_filter.params.window_size)]
    /\ UNCHANGED <<stutter_vars, clipper>>

\* One iteration of the left sample loop: self.left_filter.consume(..)
MF_ProcessLeft ==
    LET mf == median_filter IN
    /\ mf.pc = "left"
    /\ median_filter' =
           [mf EXCEPT
                !.left_filter =
                    Filter_consume(mf.left_filter, LeftSample(mf.pos + mf.i)),
                !.i = IF mf.i + 1 = mf.num_samples THEN 0 ELSE mf.i + 1,
                !.pc = IF mf.i + 1 = mf.num_samples THEN "right" ELSE "left"]
    /\ UNCHANGED <<stutter_vars, clipper>>

\* One iteration of the right sample loop: self.right_filter.consume(..)
MF_ProcessRight ==
    LET mf == median_filter IN
    /\ mf.pc = "right"
    /\ median_filter' =
           [mf EXCEPT
                !.right_filter =
                    Filter_consume(mf.right_filter, RightSample(mf.pos + mf.i)),
                !.i = IF mf.i + 1 = mf.num_samples THEN 0 ELSE mf.i + 1,
                !.pc = IF mf.i + 1 = mf.num_samples THEN "end" ELSE "right"]
    /\ UNCHANGED <<stutter_vars, clipper>>

\* process returns.
MF_ProcessEnd ==
    LET mf == median_filter IN
    /\ mf.pc = "end"
    /\ median_filter' = [mf EXCEPT !.pc = "idle",
                                   !.pos = mf.pos + mf.num_samples,
                                   !.num_samples = 0]
    /\ UNCHANGED <<stutter_vars, clipper>>

MF_Next ==
    \/ \E value \in MF_HostValues : MF_set_parameter(value)
    \/ MF_init
    \/ \E n \in 0 .. MaxBlock : MF_ProcessBegin(n)
    \/ MF_ProcessLeft
    \/ MF_ProcessRight
    \/ MF_ProcessEnd

-----------------------------------------------------------------------------
(* The RawParameters of clipper/src/lib.rs behind the PluginParameters     *)
(* methods impl_plugin_parameters gives them. clipper.raw holds the four   *)
(* AtomicFloat fields (in tenths, or NaN), clipper.notified the            *)
(* notifications the last method call sent to the host callback, and       *)
(* clipper.last that call with what it returned: ret for an f32, ok for a  *)
(* bool, text for a String.                                                *)

\* ParameterType::COUNT of the clipper.
CLIPPER_COUNT == 4

\* ParameterType::COUNT of the stutter.
STUTTER_COUNT == 3

\* A TryFrom<i32> that counts from 1.
clipper_try_from_shifted(x) ==
    CASE x = 1 -> "WetDry"
      [] x = 2 -> "PreAmp"
      [] x = 3 -> "ClipLevel"
      [] x = 4 -> "PostAmp"
      [] OTHER -> "Err"

\* impl TryFrom<i32> for ParameterType, from the table.
clipper_try_from(x) ==
    CASE x = 0 -> "WetDry"
      [] x = 1 -> "PreAmp"
      [] x = 2 -> "ClipLevel"
      [] x = 3 -> "PostAmp"
      [] OTHER -> "Err"

\* impl From<ParameterType> for i32, from the table.
clipper_into_i32(parameter) ==
    CASE parameter = "WetDry" -> 0
      [] parameter = "PreAmp" -> 1
      [] parameter = "ClipLevel" -> 2
      [] parameter = "PostAmp" -> 3

\* impl From<ParameterType> for i32 of the stutter, from its table.
stutter_into_i32(parameter) ==
    CASE parameter = "wet_dry" -> 0
      [] parameter = "trigger" -> 1
      [] parameter = "buffer_size" -> 2

\* impl Display for ParameterType, from the table.
clipper_to_string(parameter) ==
    CASE parameter = "WetDry" -> "Wet/Dry"
      [] parameter = "PreAmp" -> "Pre-Amplify"
      [] parameter = "ClipLevel" -> "Clip Level"
      [] parameter = "PostAmp" -> "Post-Amplify"

\* RawParameters::get_ref: the field of a parameter.
get_ref(parameter) ==
    CASE parameter = "PreAmp" -> "pre_amplify"
      [] parameter = "ClipLevel" -> "clip_level"
      [] parameter = "PostAmp" -> "post_amplify"
      [] parameter = "WetDry" -> "wet_dry"

\* RawParameters::default
Clipper_default ==
    [raw |-> [clip_level |-> 6, pre_amplify |-> 7, post_amplify |-> 8,
              wet_dry |-> 10],
     notified |-> <<>>,
     last |-> [method |-> "default", index |-> 0, value |-> 0, ret |-> 0,
               ok |-> FALSE, text |-> ""]]

\* RawParameters::get
clipper_get(cl, parameter) == cl.raw[get_ref(parameter)]

\* A set that stores without telling the host.
clipper_set_silent(cl, value, parameter) ==
    [cl EXCEPT !.raw[get_ref(parameter)] = value]

\* RawParameters::set: begin_edit, the store, end_edit.
clipper_set(cl, value, parameter) ==
    [cl EXCEPT !.raw[get_ref(parameter)] = value,
               !.notified = <<[call |-> "begin_edit",
                               index |-> clipper_into_i32(parameter)],
                              [call |-> "end_edit",
                               index |-> clipper_into_i32(parameter)]>>]

\* The decimal digits of n >= 0.
Digit(n) == <<"0", "1", "2", "3", "4", "5", "6", "7", "8", "9">>[n + 1]

RECURSIVE Digits(_)
Digits(n) ==
    IF n < 10 THEN Digit(n) ELSE Digits(n \div 10) \o Digit(n % 10)

\* format!("{:.2}", num/den) for num/den >= 0.
format_2(num, den) ==
    LET q == (2 * 100 * num + den) \div (2 * den) IN
    Digits(q \div 100) \o "." \o Digits((q % 100) \div 10) \o Digits(q % 10)

\* The scaled value get_strings formats, as a fraction <<num, den>>:
\* Parameters::from and the factor 100 where there is one.
scaled(parameter, x) ==
    CASE parameter = "WetDry" -> <<x * 100, 10>>
      [] parameter = "PreAmp" ->
             <<ease_in_expo_num(x) * 16 * 100, ease_in_expo_den>>
      [] parameter = "ClipLevel" -> <<ease_in_expo_num(x), ease_in_expo_den>>
      [] parameter = "PostAmp" ->
             <<ease_in_expo_num(x) * 4 * 100, ease_in_expo_den>>

\* RawParameters::get_strings: (value, units).
get_strings(cl, parameter) ==
    LET x == clipper_get(cl, parameter)
        label == CASE parameter = "PreAmp" -> "%"
                   [] parameter = "ClipLevel" -> ""
                   [] parameter = "PostAmp" -> "%"
                   [] parameter = "WetDry" -> "% Wet"
    IN
    IF x = NaN THEN <<"NaN", label>>
    ELSE <<format_2(scaled(parameter, x)[1], scaled(parameter, x)[2]), label>>

\* The indices the host passes: the table's, its neighbours and the ends of
\* i32.
CL_Indices ==
    {0 - Pow2(30) - Pow2(30), 0 - 1, 0, 1, 2, 3, 4, 5,
     (Pow2(30) - 1) + Pow2(30)}

\* The values the host passes.
CL_Values == {0, 5, 10, NaN}

CL_unchanged == UNCHANGED <<stutter_vars, median_filter>>

\* An echo test that compares nothing.
echoed_never(stored, value) == FALSE

\* self.get(parameter) == value
echoed(stored, value) == f32_eq(stored, value)

\* set_parameter(index, value)
CL_set_parameter(index, value) ==
    LET parameter == clipper_try_from(index)
        quiet == [clipper EXCEPT !.notified = <<>>]
        after == IF parameter = "Err" THEN quiet
                 ELSE IF echoed(clipper_get(clipper, parameter), value)
                     THEN quiet
                 ELSE clipper_set(quiet, value, parameter)
    IN
    /\ clipper' = [after EXCEPT !.last = [method |-> "set_parameter",
                                          index |-> index, value |-> value,
                                          ret |-> 0, ok |-> FALSE,
                                          text |-> ""]]
    /\ CL_unchanged

\* get_parameter(index)
CL_get_parameter(index) ==
    LET parameter == clipper_try_from(index)
        ret == IF parameter = "Err" THEN 0
               ELSE clipper_get(clipper, parameter)
    IN
    /\ clipper' = [clipper EXCEPT !.notified = <<>>,
                                  !.last = [method |-> "get_parameter",
                                            index |-> index, value |-> 0,
                                            ret |-> ret, ok |-> FALSE,
                                            text |-> ""]]
    /\ CL_unchanged

\* can_be_automated(index)
CL_can_be_automated(index) ==
    /\ clipper' = [clipper EXCEPT !.notified = <<>>,
                                  !.last = [method |-> "can_be_automated",
                                            index |-> index, value |-> 0,
                                            ret |-> 0,
                                            ok |-> clipper_try_from(index)
                                                       # "Err",
                                            text |-> ""]]
    /\ CL_unchanged

\* get_parameter_name, get_parameter_text and get_parameter_label(index)
CL_get_string(method, index) ==
    LET parameter == clipper_try_from(index)
        ret == IF parameter = "Err" THEN ""
               ELSE IF method = "get_parameter_name"
                   THEN clipper_to_string(parameter)
               ELSE IF method = "get_parameter_text"
                   THEN get_strings(clipper, parameter)[1]
               ELSE get_strings(clipper, parameter)[2]
    IN
    /\ clipper' = [clipper EXCEPT !.notified = <<>>,
                                  !.last = [method |-> method,
                                            index |-> index, value |-> 0,
                                            ret |-> 0, ok |-> FALSE,
                                            text |-> ret]]
    /\ CL_unchanged

CL_Next ==
    \/ \E index \in CL_Indices : \E value \in CL_Values :
           CL_set_parameter(index, value)
    \/ \E index \in CL_Indices : CL_get_parameter(index)
    \/ \E index \in CL_Indices : CL_can_be_automated(index)
    \/ \E index \in CL_Indices :
           \E method \in {"get_parameter_name", "get_parameter_text",
                          "get_parameter_label"} :
               CL_get_string(method, index)

-----------------------------------------------------------------------------
(* Stutter::new and the specification *)

Init ==
    /\ raw = [wet_dry |-> 10, trigger |-> 0, buffer_size |-> 5]
    /\ ringbuf_left = RingBuffer_new(MAX_BUFFER_SIZE \div 2)
    /\ ringbuf_right = RingBuffer_new(MAX_BUFFER_SIZE \div 2)
    /\ last_trigger_state = FALSE
    /\ pc = "idle"
    /\ params = NoParams
    /\ num_samples = 0
    /\ i = 0
    /\ pos = 0
    /\ left_output = <<>>
    /\ right_output = <<>>
    /\ fault = "none"
    /\ call = NoCall
    /\ edge = "none"
    /\ ep_start = 0
    /\ ep_size = 0
    /\ ep_grown = 0
    /\ op = NoOp
    /\ seen_true = FALSE
    /\ median_filter = MedianFilter_new
    /\ clipper = Clipper_default

Next ==
    \/ \E index \in 0 .. 2 : \E value \in HostValues(index) :
           set_parameter(index, value)
    \/ \E n \in 0 .. MaxBlock : ProcessBegin(n)
    \/ ProcessReadBufferSize
    \/ ProcessEdge
    \/ ProcessLeft
    \/ ProcessRight
    \/ ProcessEnd

Spec == Init /\ [][Next]_vars

TypeOK ==
    /\ pc \in {"idle", "read_buffer_size", "read_trigger", "left", "right",
               "end", "panicked"}
    /\ ringbuf_left.needle \in 0 .. MaxSamples
    /\ ringbuf_right.needle \in 0 .. MaxSamples

-----------------------------------------------------------------------------
(* RingBuffer on its own: its methods called directly, in any order and    *)
(* with any argument, on ringbuf_left.                                      *)

RB_unchanged ==
    /\ UNCHANGED <<median_filter, clipper>>
    /\ UNCHANGED <<raw, ringbuf_right, last_trigger_state, pc, params,
                num_samples, i, pos, left_output, right_output, edge,
                ep_start, ep_size, ep_grown, seen_true>>

\* A RingBuffer made anew in place of the one under test.
RB_new(size) ==
    /\ fault = "none"
    /\ ringbuf_left' = RingBuffer_new(size)
    /\ op' = [name |-> "new", arg |-> size]
    /\ call' = NoCall
    /\ UNCHANGED fault
    /\ RB_unchanged

RB_set_size(new_size) ==
    /\ fault = "none"
    /\ ringbuf_left' = set_size(ringbuf_left, new_size)
    /\ op' = [name |-> "set_size", arg |-> new_size]
    /\ UNCHANGED <<fault, call>>
    /\ RB_unchanged

\* set_size as process calls it: self.ringbuf_left.set_size(params.buffer_size)
\* with params.buffer_size made by Parameters::from out of the raw value x.
RB_set_size_from_raw(x) ==
    /\ fault = "none"
    /\ ringbuf_left' = set_size(ringbuf_left, buffer_size_of(x))
    /\ op' = [name |-> "set_size_from_raw", arg |-> x]
    /\ UNCHANGED <<fault, call>>
    /\ RB_unchanged

RB_set_triggered ==
    /\ fault = "none"
    /\ ringbuf_left' = set_triggered(ringbuf_left)
    /\ op' = [name |-> "set_triggered", arg |-> 0]
    /\ UNCHANGED <<fault, call>>
    /\ RB_unchanged

RB_set_untriggered ==
    /\ fault = "none"
    /\ ringbuf_left' = set_untriggered(ringbuf_left)
    /\ op' = [name |-> "set_untriggered", arg |-> 0]
    /\ UNCHANGED <<fault, call>>
    /\ RB_unchanged

RB_next(input) ==
    /\ fault = "none"
    /\ ringbuf_left.needle < MaxSamples
    /\ op' = [name |-> "next", arg |-> input]
    /\ IF next_fault(ringbuf_left) # "none"
       THEN /\ fault' = next_fault(ringbuf_left)
            /\ UNCHANGED <<ringbuf_left, call>>
       ELSE /\ ringbuf_left' = next_state(ringbuf_left, input)
            /\ call' = CallOf("left", ringbuf_left, input)
            /\ UNCHANGED fault
    /\ RB_unchanged

\* The sizes asked for: below range, the ends of the range, the constructor's
\* size and above range.
RB_Sizes == {0, 1, MAX_BUFFER_SIZE \div 2, MAX_BUFFER_SIZE, MAX_BUFFER_SIZE + 1}

\* The raw buffer_size values: 0.0, the default 0.5, values near 1.0 and one
\* above the documented range.
RB_Raw == {0, 5, 8, 9, 10, 11}

RB_Next ==
    \/ \E size \in RB_Sizes : RB_new(size)
    \/ \E new_size \in RB_Sizes : RB_set_size(new_size)
    \/ \E x \in RB_Raw : RB_set_size_from_raw(x)
    \/ RB_set_triggered
    \/ RB_set_untriggered
    \/ \E input \in {1, 2} : RB_next(input)

SpecRingBuffer == Init /\ [][RB_Next]_vars

-----------------------------------------------------------------------------
(* Constant parameters: the host writes parameters between process calls,  *)
(* then stops; from there on the stream is processed in blocks of any      *)
(* lengths. op remembers the engine as it was when the writes stopped.     *)

PT_set_parameter(index, value) ==
    /\ op.name = "none"
    /\ pc = "idle"
    /\ set_parameter(index, value)

\* The last host write has been made.
PT_Hold ==
    /\ op.name = "none"
    /\ pc = "idle"
    /\ op' = [name |-> "hold",
              arg |-> [left |-> ringbuf_left, right |-> ringbuf_right,
                       last |-> last_trigger_state, pos |-> pos]]
    /\ UNCHANGED <<raw, ringbuf_left, ringbuf_right, last_trigger_state, pc,
                   params, num_samples, i, pos, left_output, right_output,
                   fault, call, edge, ep_start, ep_size, ep_grown, seen_true>>
    /\ UNCHANGED <<median_filter, clipper>>

PT_Next ==
    \/ \E index \in 0 .. 2 : \E value \in HostValues(index) :
           PT_set_parameter(index, value)
    \/ PT_Hold
    \/ \E n \in 0 .. MaxBlock : ProcessBegin(n)
    \/ ProcessReadBufferSize
    \/ ProcessEdge
    \/ ProcessLeft
    \/ ProcessRight
    \/ ProcessEnd

SpecPartition == Init /\ [][PT_Next]_vars

-----------------------------------------------------------------------------
(* Trigger pulses: the host writes the trigger and the size at any moment; *)
(* op follows the trigger writes made since the last read of the trigger   *)
(* by process.                                                             *)

\* The trigger as process last read it: params.trigger once the running
\* block has read it, last_trigger_state before.
LastRead ==
    IF pc \in {"left", "right", "end"} THEN params.trigger
    ELSE last_trigger_state

\* op after a write that changes the raw trigger to value. "up" and "down":
\* the trigger has left the value last read; "missed" and "glitched": it has
\* come back to it before any read. "up" keeps the two RingBuffers as the
\* write found them.
PulseAfter(value) ==
    IF trigger_of(value) = LastRead
        THEN IF op.name = "up" THEN [name |-> "missed", arg |-> op.arg]
             ELSE IF op.name = "down" THEN [name |-> "glitched", arg |-> 0]
             ELSE NoOp
    ELSE IF trigger_of(value)
        THEN [name |-> "up",
              arg |-> [left |-> ringbuf_left, right |-> ringbuf_right]]
    ELSE [name |-> "down", arg |-> 0]

\* set_parameter(1, value): a host write of the trigger.
PU_set_trigger(value) ==
    /\ try_from(1) # "Err"
    /\ raw.trigger # value
    /\ raw' = [raw EXCEPT !.trigger = value]
    /\ op' = PulseAfter(value)
    /\ UNCHANGED <<ringbuf_left, ringbuf_right, last_trigger_state, pc, params,
                   num_samples, i, pos, left_output, right_output, fault,
                   call, edge, ep_start, ep_size, ep_grown, seen_true>>
    /\ UNCHANGED <<median_filter, clipper>>

PU_Next ==
    \/ \E value \in HostValues(1) : PU_set_trigger(value)
    \/ \E value \in HostValues(2) : set_parameter(2, value)
    \/ \E n \in 0 .. MaxBlock : ProcessBegin(n)
    \/ ProcessReadBufferSize
    \/ ProcessEdge
    \/ ProcessLeft
    \/ ProcessRight
    \/ ProcessEnd

SpecPulse == Init /\ [][PU_Next]_vars

SpecMedian == Init /\ [][MF_Next]_vars

SpecClipper == Init /\ [][CL_Next]_vars

-----------------------------------------------------------------------------
(* Properties *)

\* The sample of the episode that began at ep_start, at position q.
EpisodeInput(ch, q) ==
    IF ch = "left" THEN LeftSample(ep_start + q) ELSE RightSample(ep_start + q)

\* The position, in the running episode, of the sample the last next() took.
EpisodeIndex == pos + call.index - ep_start

\* The RingBuffer the last next() call was made on.
CallBuffer == IF call.ch = "right" THEN ringbuf_right ELSE ringbuf_left

TriggeredCall == call.ch # "none" /\ call.trigger

\* C1. Pass-through: as long as every block so far has read trigger = false,
\* every next(input), on either channel, returns exactly input.
C1_PassThrough ==
    (call.ch # "none" /\ ~seen_true) => call.ret = call.input

\* A second sample of a block passed through on the right channel.
C1_Witness ==
    ~seen_true /\ call.ch = "right" /\ call.index = 1 /\ call.ret = call.input

\* C2. Capture-then-loop: in an episode whose size has been the constant s
\* since its rising edge, the k-th next() returns the (k mod s)-th input of
\* the episode, for every k, also k >= capacity.
C2_CaptureThenLoop ==
    (TriggeredCall /\ ep_size # 0) =>
        /\ call.size = ep_size
        /\ ep_size \in 1 .. MAX_BUFFER_SIZE
        /\ call.ret = EpisodeInput(call.ch, EpisodeIndex % ep_size)

\* A call at or past capacity that replays a window shorter than the buffer.
C2_Witness ==
    /\ TriggeredCall
    /\ ep_size > 1
    /\ ep_size < MAX_BUFFER_SIZE
    /\ EpisodeIndex >= MAX_BUFFER_SIZE
    /\ call.ret # call.input

\* C3. Seamless grow: after the size of a running episode went from s1 up to
\* s2 at a moment when needle >= s2, every next() returns the episode input
\* captured at position needle mod s2, the needle being the call's position
\* in the episode; positions s1..s2-1 play what arrived there.
C3_SeamlessGrow ==
    (TriggeredCall /\ ep_grown # 0) =>
        /\ ep_grown < call.size
        /\ call.needle = EpisodeIndex
        /\ call.ret = EpisodeInput(call.ch, call.needle % call.size)

\* A call after a grow that plays one of the newly exposed positions.
C3_Witness ==
    /\ TriggeredCall
    /\ ep_grown # 0
    /\ call.needle % call.size >= ep_grown
    /\ call.needle >= call.size

\* The step of process that reads the trigger and acts on it.
EdgeStep == pc = "read_trigger" /\ pc' # "read_trigger"

\* The step of process that reads the trigger and finds a rising edge.
RisingStep == EdgeStep /\ ~last_trigger_state /\ trigger_of(raw.trigger)

\* The step of process that reads the trigger and finds a falling edge.
FallingStep == EdgeStep /\ last_trigger_state /\ ~trigger_of(raw.trigger)

C4_FirstOutput ==
    /\ (TriggeredCall /\ EpisodeIndex = 0) =>
           (call.needle = 0 /\ call.ret = call.input)
    /\ (TriggeredCall /\ ep_size # 0) =>
           \E q \in 0 .. (ep_size - 1) : call.ret = EpisodeInput(call.ch, q)

\* C4. Rising edge resets needle: every rising edge, the second one of a
\* history on, off, on included, sets both needles to 0 whatever they were;
\* the first output after it is the input of that moment and, with a constant
\* size s, the loop replays only the first s inputs of the new episode.
C4_RisingEdgeResets ==
    /\ [][RisingStep =>
            (ringbuf_left'.needle = 0 /\ ringbuf_right'.needle = 0)]_vars
    /\ []C4_FirstOutput

\* Samples of an earlier episode are still in the left buffer.
StaleLeft ==
    \E c \in Cells :
        /\ ringbuf_left.buffer[c] # 0
        /\ ringbuf_left.buffer[c] < LeftSample(ep_start)

\* A later episode, looping over its own inputs while the buffer still holds
\* samples of an earlier one.
C4_Witness ==
    /\ TriggeredCall
    /\ call.ch = "left"
    /\ StaleLeft
    /\ ep_size # 0
    /\ EpisodeIndex >= ep_size

\* C5. Falling edge: in the block that detects a falling edge, the first
\* next() already returns its own input.
C5_FallingEdge ==
    (call.ch # "none" /\ edge = "falling" /\ call.index = 0) =>
        call.ret = call.input

\* The first call after a falling edge, made on a buffer whose playback
\* position holds another sample.
C5_Witness ==
    /\ call.ch = "left"
    /\ edge = "falling"
    /\ call.index = 0
    /\ call.needle >= call.size
    /\ ringbuf_left.buffer[call.needle % call.size] # call.input
    /\ call.ret = call.input

\* C6 as stated: set_size(new_size) stores clamp(new_size, 1, capacity).
C6_SetSizeClamps ==
    op.name = "set_size" =>
        ringbuf_left.size = clamp(op.arg, 1, MAX_BUFFER_SIZE)

\* C6, amended. set_size stores its argument as it is; the clamp is made by
\* Parameters::from, so the size process stores is the requested sample count
\* brought into 1..capacity: 0 gives 1, more than capacity gives capacity,
\* and a triggered next() that follows neither divides by zero nor leaves
\* the buffer.
C6_ClampSafety ==
    /\ op.name = "set_size" => ringbuf_left.size = op.arg
    /\ op.name = "set_size_from_raw" =>
        LET asked == requested_size(op.arg) IN
        /\ ringbuf_left.size \in 1 .. MAX_BUFFER_SIZE
        /\ asked = 0 => ringbuf_left.size = 1
        /\ asked > MAX_BUFFER_SIZE => ringbuf_left.size = MAX_BUFFER_SIZE
        /\ asked \in 1 .. MAX_BUFFER_SIZE => ringbuf_left.size = asked
        /\ next_fault(ringbuf_left) = "none"

\* A request for 0 samples stored as size 1 in a triggered RingBuffer whose
\* needle is past the start.
C6_Witness ==
    /\ op.name = "set_size_from_raw"
    /\ requested_size(op.arg) = 0
    /\ ringbuf_left.size = 1
    /\ ringbuf_left.trigger
    /\ ringbuf_left.needle > 1

\* C7. In every reachable state of the engine both active sizes are in
\* 1..capacity.
C7_SizeInRange ==
    /\ ringbuf_left.size \in 1 .. MAX_BUFFER_SIZE
    /\ ringbuf_right.size \in 1 .. MAX_BUFFER_SIZE

\* Mid-episode, after process calls that changed the size, at full capacity.
C7_Witness ==
    /\ TriggeredCall
    /\ ep_size = 0
    /\ ringbuf_left.size = MAX_BUFFER_SIZE
    /\ ringbuf_right.size = MAX_BUFFER_SIZE
    /\ requested_size(raw.buffer_size) > MAX_BUFFER_SIZE

\* A cell of rb changes in this step only by a triggered next() on that
\* channel with needle < capacity, and the cell is buffer[needle].
WritesOnlyAtNeedle(rb, rbNext, loop) ==
    \A c \in Cells :
        rbNext.buffer[c] # rb.buffer[c] =>
            /\ pc = loop
            /\ rb.trigger
            /\ rb.needle < MAX_BUFFER_SIZE
            /\ c = rb.needle

\* Once the needle is at or past capacity no step changes the buffer.
Frozen(rb, rbNext) ==
    rb.needle >= MAX_BUFFER_SIZE => rbNext.buffer = rb.buffer

\* Past capacity next() still returns buffer[needle mod size].
C8_PlaysFrozenBuffer ==
    (TriggeredCall /\ call.needle >= MAX_BUFFER_SIZE) =>
        /\ CallBuffer.needle = call.needle + 1
        /\ call.ret = CallBuffer.buffer[call.needle % call.size]

\* C8. A buffer cell is written only by a next() made while triggered and
\* with needle < capacity, and that cell is buffer[needle]; from needle >=
\* capacity on the buffer stays as it is (until a rising edge resets the
\* needle) while next() keeps returning buffer[needle mod size].
C8_CaptureStopsAtCapacity ==
    /\ [][/\ WritesOnlyAtNeedle(ringbuf_left, ringbuf_left', "left")
          /\ WritesOnlyAtNeedle(ringbuf_right, ringbuf_right', "right")
          /\ Frozen(ringbuf_left, ringbuf_left')
          /\ Frozen(ringbuf_right, ringbuf_right')]_vars
    /\ []C8_PlaysFrozenBuffer

\* A next() made with the needle at capacity: its input differs from what it
\* plays and is not in the buffer afterwards.
C8_Witness ==
    /\ TriggeredCall
    /\ call.ch = "left"
    /\ call.needle >= MAX_BUFFER_SIZE
    /\ call.ret # call.input
    /\ \A c \in Cells : ringbuf_left.buffer[c] # call.input

\* The indices a triggered next() on rb would use are inside the buffer and
\* its modulus is not zero.
SafeToCall(rb) ==
    /\ rb.size # 0
    /\ rb.needle < MAX_BUFFER_SIZE => rb.needle \in Cells
    /\ (rb.needle % rb.size) \in Cells

\* C9. No fault on the audio path: no next() has panicked, and in every
\* reachable state a next() on either channel would neither divide by zero
\* nor index outside the buffer, also with the needle past capacity and after
\* size changes.
C9_NoFault ==
    /\ fault = "none"
    /\ pc # "panicked"
    /\ SafeToCall(ringbuf_left)
    /\ SafeToCall(ringbuf_right)

\* A call past capacity in an episode whose size was changed on the way.
C9_Witness ==
    /\ TriggeredCall
    /\ call.ch = "right"
    /\ call.needle >= MAX_BUFFER_SIZE
    /\ ep_size = 0
    /\ fault = "none"

\* What the block boundary does to one RingBuffer, given the trigger boolean
\* of the previous block (last_trigger_state) and the one read now.
BoundaryEffect(rb, rbNext) ==
    LET previous == last_trigger_state
        current == trigger_of(raw.trigger)
    IN
    /\ (~previous /\ current) => (rbNext.trigger /\ rbNext.needle = 0)
    /\ (previous /\ ~current) =>
           (~rbNext.trigger /\ rbNext.needle = rb.needle)
    /\ (previous = current) =>
           (rbNext.trigger = rb.trigger /\ rbNext.needle = rb.needle)
    /\ (~rb.trigger /\ rbNext.trigger) => (~previous /\ current)
    /\ (rb.trigger /\ ~rbNext.trigger) => (previous /\ ~current)

\* The trigger flag changes at block boundaries only, and the needle moves
\* only there or in a next().
OnlyAtBoundary(rb, rbNext, loop) ==
    /\ rbNext.trigger # rb.trigger => EdgeStep
    /\ rbNext.needle # rb.needle => (EdgeStep \/ pc = loop)

\* The trigger boolean a block read is the previous one of the next block.
RemembersTrigger ==
    (pc = "end" /\ pc' = "idle") => last_trigger_state' = params.trigger

IdleAtStart ==
    ~ringbuf_left.trigger /\ ~ringbuf_right.trigger /\ ~last_trigger_state

\* C10. Trigger state machine: the engine starts Idle; a block boundary moves
\* Idle -> Looping (needle <- 0, triggered <- true) exactly when the previous
\* trigger boolean was false and the one read now is true, Looping -> Idle
\* (triggered <- false) exactly when it was true and is now false, and
\* changes neither flag nor needle when the two are equal.
C10_TriggerStateMachine ==
    /\ IdleAtStart
    /\ [][/\ EdgeStep => /\ BoundaryEffect(ringbuf_left, ringbuf_left')
                         /\ BoundaryEffect(ringbuf_right, ringbuf_right')
                         /\ params'.trigger = trigger_of(raw.trigger)
          /\ OnlyAtBoundary(ringbuf_left, ringbuf_left', "left")
          /\ OnlyAtBoundary(ringbuf_right, ringbuf_right', "right")
          /\ RemembersTrigger]_vars

\* A loop running on in a block that found the trigger held true.
C10_Witness ==
    /\ pc = "left"
    /\ edge = "none"
    /\ last_trigger_state
    /\ params.trigger
    /\ ringbuf_left.trigger
    /\ ringbuf_left.needle > 0
    /\ ringbuf_left.needle = pos - ep_start

-----------------------------------------------------------------------------
(* One channel of process on its own: the body of its sample loop, run on  *)
(* ringbuf_left with any f32 sample and any wet/dry ratio, between direct  *)
(* trigger notifications.                                                  *)

\* The samples handed in: two finite ones and an infinite one.
CH_Samples == {1, 2, PosInf}

\* The wet/dry ratios: the two extremes and the middle.
CH_WetDry == {0, 5, 10}

\* let out = self.ringbuf_left.next(left_input[i]);
\* left_output[i] = left_input[i] * (1.0 - wet_dry) + out * wet_dry;
CH_sample(input, wet_dry) ==
    /\ fault = "none"
    /\ next_fault(ringbuf_left) = "none"
    /\ ringbuf_left.needle < MaxSamples
    /\ ringbuf_left' = next_state(ringbuf_left, input)
    /\ call' = CallOf("left", ringbuf_left, input)
    /\ params' = [NoParams EXCEPT !.wet_dry = wet_dry]
    /\ left_output' = <<mix(input, next_sample(ringbuf_left, input), wet_dry)>>
    /\ op' = [name |-> "sample", arg |-> input]
    /\ UNCHANGED <<raw, ringbuf_right, last_trigger_state, pc, num_samples, i,
                   pos, right_output, fault, edge, ep_start, ep_size,
                   ep_grown, seen_true>>
    /\ UNCHANGED <<median_filter, clipper>>

CH_Next ==
    \/ RB_set_triggered
    \/ RB_set_untriggered
    \/ \E input \in CH_Samples : \E wet_dry \in CH_WetDry :
           CH_sample(input, wet_dry)

SpecChannel == Init /\ [][CH_Next]_vars

\* A sample in the unit of the outputs (tenths).
Tenths(x) == IF Finite(x) THEN 10 * x ELSE x

MixedCall == call.ch # "none" /\ left_output # <<>>

LastOutput == left_output[Len(left_output)]

\* C11 as stated: wet_dry = 0 makes every output equal its input, wet_dry = 1
\* makes it equal the value next() returned.
C11_WetDryExtremes ==
    MixedCall =>
        /\ params.wet_dry = 0 => f32_eq(LastOutput, Tenths(call.input))
        /\ params.wet_dry = 10 => f32_eq(LastOutput, Tenths(call.ret))

\* C11, amended. For a finite input sample and a finite value returned by
\* next(): wet_dry = 0 makes the output equal the input whatever the trigger
\* state, wet_dry = 1 makes it equal the value next() returned.
C11_WetDryExtremesFinite ==
    (MixedCall /\ Finite(call.input) /\ Finite(call.ret)) =>
        /\ params.wet_dry = 0 => f32_eq(LastOutput, Tenths(call.input))
        /\ params.wet_dry = 10 => f32_eq(LastOutput, Tenths(call.ret))

\* Fully dry while the loop plays another, finite, sample than the input.
C11_Witness ==
    /\ MixedCall
    /\ call.trigger
    /\ params.wet_dry = 0
    /\ Finite(call.input)
    /\ Finite(call.ret)
    /\ call.ret # call.input
    /\ LastOutput = Tenths(call.input)

\* The RingBuffer under test is as its constructor left it.
Constructed == op = NoOp \/ op.name = "new"

\* The number of cells of the buffer a RingBuffer owns.
Capacity(rb) == Cardinality(DOMAIN rb.buffer)

ZeroFilled(rb) == \A c \in DOMAIN rb.buffer : rb.buffer[c] = 0

\* C12 as stated: a newly constructed RingBuffer has an all-zero buffer,
\* needle 0, trigger false and an active size equal to the number of cells
\* of the buffer it owns.
C12_SizeIsCapacity ==
    Constructed =>
        /\ ZeroFilled(ringbuf_left)
        /\ ringbuf_left.needle = 0
        /\ ~ringbuf_left.trigger
        /\ ringbuf_left.size = Capacity(ringbuf_left)

\* C12, amended. A newly constructed RingBuffer has an all-zero buffer of
\* MAX_BUFFER_SIZE cells whatever the argument, needle 0, trigger false and
\* an active size equal to the argument; the two RingBuffers of a new Stutter
\* are made with MAX_BUFFER_SIZE / 2, half the cells of their buffers.
C12_Construction ==
    /\ Constructed =>
        /\ ZeroFilled(ringbuf_left)
        /\ DOMAIN ringbuf_left.buffer = Cells
        /\ Capacity(ringbuf_left) = MAX_BUFFER_SIZE
        /\ ringbuf_left.needle = 0
        /\ ~ringbuf_left.trigger
    /\ op.name = "new" => ringbuf_left.size = op.arg
    /\ op = NoOp =>
        /\ ringbuf_left.size = MAX_BUFFER_SIZE \div 2
        /\ ringbuf_right = ringbuf_left
        /\ ~last_trigger_state

\* A RingBuffer made with size 1: one active cell, MAX_BUFFER_SIZE cells.
C12_Witness ==
    /\ op.name = "new"
    /\ op.arg = 1
    /\ ringbuf_left.size = 1
    /\ Capacity(ringbuf_left) = MAX_BUFFER_SIZE
    /\ ZeroFilled(ringbuf_left)

\* The input sample of a channel at stream position k.
Sample(ch, k) == IF ch = "left" THEN LeftSample(k) ELSE RightSample(k)

\* The RingBuffer after the sample loop of one process call has taken the n
\* samples from stream position from on.
RECURSIVE SampleLoop(_, _, _, _)
SampleLoop(rb, ch, from, n) ==
    IF n = 0 THEN rb
    ELSE next_state(SampleLoop(rb, ch, from, n - 1), Sample(ch, from + n - 1))

Held == op.name = "hold"

\* The RingBuffer of a channel when the host writes stopped.
HeldBuffer(ch) == IF ch = "left" THEN op.arg.left ELSE op.arg.right

\* One process call on the held engine with a block of n samples: the
\* RingBuffer of a channel when the call returns.
OneBlock(ch, n) ==
    SampleLoop(after_edge(HeldBuffer(ch), buffer_size_of(raw.buffer_size),
                          match_edge(op.arg.last, trigger_of(raw.trigger))),
               ch, op.arg.pos, n)

\* The k-th output (from 0) of that one call.
OneBlockOutput(ch, k) ==
    mix(Sample(ch, op.arg.pos + k),
        next_sample(OneBlock(ch, k), Sample(ch, op.arg.pos + k)),
        raw.wet_dry)

\* The samples of the stream taken since the host writes stopped, by the
\* blocks that have returned.
Taken == pos - op.arg.pos

\* C13. With the three parameters constant, whatever the block lengths
\* (zero-length blocks included), every output written is the output one
\* process call over the whole stream writes at that position, and when a
\* call returns needle, size, trigger flag and buffer of both channels and
\* the last trigger state are those one call over the stream taken so far
\* leaves.
C13_BlockPartition ==
    Held =>
        /\ fault = "none"
        /\ \A j \in 1 .. Len(left_output) :
               left_output[j] = OneBlockOutput("left", Taken + j - 1)
        /\ \A j \in 1 .. Len(right_output) :
               right_output[j] = OneBlockOutput("right", Taken + j - 1)
        /\ pc \in {"left", "right", "end"} =>
               /\ ringbuf_left = OneBlock("left", Taken + Len(left_output))
               /\ ringbuf_right = OneBlock("right", Taken + Len(right_output))
               /\ params.trigger = trigger_of(raw.trigger)
        /\ pc = "end" =>
               /\ Len(left_output) = num_samples
               /\ Len(right_output) = num_samples
        /\ pc = "idle" =>
               \/ /\ Taken = 0
                  /\ ringbuf_left = op.arg.left
                  /\ ringbuf_right = op.arg.right
                  /\ last_trigger_state = op.arg.last
               \/ /\ ringbuf_left = OneBlock("left", Taken)
                  /\ ringbuf_right = OneBlock("right", Taken)
                  /\ last_trigger_state = trigger_of(raw.trigger)

\* A loop that began with the first block after the writes stopped, longer
\* than its size, at the end of a one-sample block that follows other blocks.
C13_Witness ==
    /\ Held
    /\ pc = "end"
    /\ num_samples = 1
    /\ Taken >= 2
    /\ ~op.arg.last
    /\ ringbuf_left.trigger
    /\ ringbuf_left.needle = Taken + 1
    /\ ringbuf_left.size < ringbuf_left.needle
    /\ ringbuf_left = OneBlock("left", Taken + 1)

\* The sample loops of a process call are running or have just ended.
InBlock == pc \in {"left", "right", "end"}

\* The output block of the channel of the last next() call.
CallOutput == IF call.ch = "right" THEN right_output ELSE left_output

\* The last next() call ran with the size and the trigger the block read, and
\* its output was mixed with the ratio the block read.
UsesBlockParameters ==
    call.ch # "none" =>
        /\ call.size = params.buffer_size
        /\ call.trigger = params.trigger
        /\ Len(CallOutput) = call.index + 1
        /\ CallOutput[call.index + 1] =
               mix(call.input, call.ret, params.wet_dry)

\* While the samples of a block are processed, what the block read stays as
\* it is, with the size and the trigger flag of both channels, and the outputs
\* already written stay as written.
BlockParametersHeld ==
    (InBlock /\ pc' # "idle") =>
        /\ params' = params
        /\ ringbuf_left'.size = ringbuf_left.size
        /\ ringbuf_right'.size = ringbuf_right.size
        /\ ringbuf_left'.trigger = ringbuf_left.trigger
        /\ ringbuf_right'.trigger = ringbuf_right.trigger
        /\ Len(left_output') >= Len(left_output)
        /\ Len(right_output') >= Len(right_output)
        /\ SubSeq(left_output', 1, Len(left_output)) = left_output
        /\ SubSeq(right_output', 1, Len(right_output)) = right_output

\* A host write changes the raw parameters and nothing of the engine or of
\* the running block.
WriteTouchesOnlyRaw ==
    raw' # raw =>
        UNCHANGED <<ringbuf_left, ringbuf_right, last_trigger_state, pc,
                    params, num_samples, i, pos, left_output, right_output>>

\* C14. Under any interleaving of host writes with the audio thread, every
\* sample of a block is processed with the ratio, the size and the trigger
\* read at the start of the block; a write that lands while the samples are
\* processed changes no output of the block.
C14_SampledOncePerBlock ==
    /\ []UsesBlockParameters
    /\ [][BlockParametersHeld]_vars
    /\ [][WriteTouchesOnlyRaw]_vars

\* A looped sample mixed while all three raw parameters differ from what the
\* block read.
C14_Witness ==
    /\ call.ch = "right"
    /\ call.trigger
    /\ call.ret # call.input
    /\ params.wet_dry # raw.wet_dry
    /\ params.buffer_size # buffer_size_of(raw.buffer_size)
    /\ params.trigger # trigger_of(raw.trigger)
    /\ CallOutput[call.index + 1] = mix(call.input, call.ret, params.wet_dry)
    /\ CallOutput[call.index + 1] # mix(call.input, call.ret, raw.wet_dry)

\* C15. Between process calls the two RingBuffers have the same trigger
\* flag, the same size and the same needle.
C15_ChannelLockstep ==
    pc = "idle" =>
        /\ ringbuf_left.trigger = ringbuf_right.trigger
        /\ ringbuf_left.size = ringbuf_right.size
        /\ ringbuf_left.needle = ringbuf_right.needle

\* Between two calls, mid-episode, past the size, while the host has already
\* asked for another size and for the trigger to fall.
C15_Witness ==
    /\ pc = "idle"
    /\ ringbuf_left.trigger
    /\ ringbuf_right.trigger
    /\ ringbuf_left.needle >= 3
    /\ ringbuf_left.needle = ringbuf_right.needle
    /\ ringbuf_left.size = ringbuf_right.size
    /\ ringbuf_left.size < ringbuf_left.needle
    /\ ringbuf_left.size # buffer_size_of(raw.buffer_size)
    /\ ~trigger_of(raw.trigger)
    /\ ringbuf_left.buffer # ringbuf_right.buffer

\* C16. Warm-up: every triggered next(input) made while needle < size returns
\* input, whatever the sizes earlier in the episode.
C16_WarmUp ==
    (TriggeredCall /\ call.needle < call.size) => call.ret = call.input

\* A warm-up call of an episode whose size was changed after its rising
\* edge, made on a buffer that holds samples of an earlier episode.
C16_Witness ==
    /\ TriggeredCall
    /\ call.ch = "left"
    /\ call.needle >= 1
    /\ call.needle < call.size
    /\ call.ret = call.input
    /\ ep_size = 0
    /\ StaleLeft

\* The step is one iteration of the left (right) sample loop: a next() call.
LeftCallStep == pc = "left" /\ Len(left_output') = Len(left_output) + 1

RightCallStep == pc = "right" /\ Len(right_output') = Len(right_output) + 1

\* What one step does to the needle of each channel.
NeedleStep ==
    /\ LeftCallStep =>
           /\ ringbuf_left'.needle =
                  IF ringbuf_left.trigger THEN ringbuf_left.needle + 1
                  ELSE ringbuf_left.needle
           /\ ringbuf_right'.needle = ringbuf_right.needle
    /\ RightCallStep =>
           /\ ringbuf_right'.needle =
                  IF ringbuf_right.trigger THEN ringbuf_right.needle + 1
                  ELSE ringbuf_right.needle
           /\ ringbuf_left'.needle = ringbuf_left.needle
    /\ RisingStep =>
           /\ ringbuf_left'.needle = 0
           /\ ringbuf_right'.needle = 0
    /\ (EdgeStep /\ ~RisingStep) =>
           /\ ringbuf_left'.needle = ringbuf_left.needle
           /\ ringbuf_right'.needle = ringbuf_right.needle
    /\ ringbuf_left'.needle # ringbuf_left.needle =>
           \/ RisingStep
           \/ /\ LeftCallStep
              /\ ringbuf_left.trigger
              /\ ringbuf_left'.trigger
    /\ ringbuf_right'.needle # ringbuf_right.needle =>
           \/ RisingStep
           \/ /\ RightCallStep
              /\ ringbuf_right.trigger
              /\ ringbuf_right'.trigger

\* C17. Needle discipline: a triggered next() adds exactly 1 to the needle,
\* below and past capacity alike; only a rising edge sets it to 0; set_size,
\* a falling edge and an untriggered next() leave it as it is, and no other
\* step changes it.
C17_NeedleDiscipline == [][NeedleStep]_vars

\* A triggered call made with the needle at capacity, which still moved it.
C17_Witness ==
    /\ TriggeredCall
    /\ call.ch = "left"
    /\ call.needle >= MAX_BUFFER_SIZE
    /\ ringbuf_left.needle = call.needle + 1
    /\ ringbuf_left.size < MAX_BUFFER_SIZE

\* The inputs a channel has received in the running episode, up to and
\* including the one of the last next() call.
EpisodeInputs(ch) == {EpisodeInput(ch, q) : q \in 0 .. EpisodeIndex}

\* C18. No stale audio: whatever the sizes (all in 1..capacity) during an
\* episode, every triggered next() returns the input the episode received at
\* position needle mod size, a position not after the call's own; so never a
\* zero left by the constructor and never a sample of an earlier episode.
C18_NoStaleAudio ==
    TriggeredCall =>
        /\ call.size \in 1 .. MAX_BUFFER_SIZE
        /\ call.needle = EpisodeIndex
        /\ call.needle % call.size <= EpisodeIndex
        /\ call.ret = EpisodeInput(call.ch, call.needle % call.size)
        /\ call.ret \in EpisodeInputs(call.ch)
        /\ call.ret # 0

\* A looped sample of an episode whose size was changed, played from a buffer
\* that holds both a sample of an earlier episode and a constructor's zero.
C18_Witness ==
    /\ TriggeredCall
    /\ call.ch = "left"
    /\ ep_size = 0
    /\ call.needle >= call.size
    /\ call.ret # call.input
    /\ call.ret = EpisodeInput("left", call.needle % call.size)
    /\ StaleLeft
    /\ \E c \in Cells : ringbuf_left.buffer[c] = 0

\* The step is a direct call of set_size, with any argument or with the size
\* Parameters::from makes.
SetSizeStep == op'.name \in {"set_size", "set_size_from_raw"}

\* The size a set_size call recorded in op was given.
SizeGiven(o) ==
    IF o.name = "set_size" THEN o.arg ELSE buffer_size_of(o.arg)

\* set_size stores the size and touches nothing else.
SetSizeFrame ==
    SetSizeStep =>
        /\ ringbuf_left'.size = SizeGiven(op')
        /\ ringbuf_left'.buffer = ringbuf_left.buffer
        /\ ringbuf_left'.needle = ringbuf_left.needle
        /\ ringbuf_left'.trigger = ringbuf_left.trigger

\* The next() that follows a set_size, if it returns, plays with that size.
SetSizeThenNext ==
    (/\ op.name \in {"set_size", "set_size_from_raw"}
     /\ op'.name = "next"
     /\ fault' = "none") =>
        /\ call'.size = SizeGiven(op)
        /\ ringbuf_left.trigger =>
               call'.ret =
                   ringbuf_left'.buffer[ringbuf_left.needle % SizeGiven(op)]

\* C19. set_size changes only the active size: buffer, needle and trigger
\* flag stay as they are, and the very next next() uses the new size.
C19_SetSizeOnlySize ==
    /\ [][SetSizeFrame]_vars
    /\ [][SetSizeThenNext]_vars

\* A triggered RingBuffer, past its old window, just given the whole buffer
\* as size, with its captured samples still in place.
C19_Witness ==
    /\ op.name = "set_size"
    /\ op.arg = MAX_BUFFER_SIZE
    /\ ringbuf_left.size = MAX_BUFFER_SIZE
    /\ ringbuf_left.trigger
    /\ ringbuf_left.needle >= 3
    /\ \A c \in 0 .. 2 : ringbuf_left.buffer[c] # 0

\* C20. A next() made while untriggered returns its input and leaves buffer,
\* needle, size and trigger flag as they were.
C20_UntriggeredNext ==
    [][(op'.name = "next" /\ ~ringbuf_left.trigger) =>
          /\ fault' = "none"
          /\ call'.ret = call'.input
          /\ ringbuf_left' = ringbuf_left]_vars

\* An untriggered call on a RingBuffer that holds captured samples and a
\* needle left past them, with an input that differs from the cell at the
\* needle's window position.
C20_Witness ==
    /\ op.name = "next"
    /\ call.ch = "left"
    /\ ~call.trigger
    /\ ~ringbuf_left.trigger
    /\ ringbuf_left.needle = call.needle
    /\ call.needle >= 2
    /\ call.size \in 1 .. MAX_BUFFER_SIZE
    /\ ringbuf_left.buffer[0] # 0
    /\ ringbuf_left.buffer[call.needle % call.size] # call.input
    /\ call.ret = call.input

\* Calling either setter on the RingBuffer under test once, and once more.
SettersIdempotent ==
    LET on == set_triggered(ringbuf_left)
        off == set_untriggered(ringbuf_left)
    IN
    /\ set_triggered(on) = on
    /\ on = [ringbuf_left EXCEPT !.trigger = TRUE, !.needle = 0]
    /\ on.buffer = ringbuf_left.buffer
    /\ on.size = ringbuf_left.size
    /\ set_untriggered(off) = off
    /\ off = [ringbuf_left EXCEPT !.trigger = FALSE]
    /\ off.needle = ringbuf_left.needle
    /\ off.buffer = ringbuf_left.buffer
    /\ off.size = ringbuf_left.size

\* A setter called right after the same setter changes nothing.
SetterRepeated ==
    (/\ op.name \in {"set_triggered", "set_untriggered"}
     /\ op'.name = op.name) => ringbuf_left' = ringbuf_left

\* C21. Idempotent setters: from any RingBuffer state, set_triggered twice
\* gives the state set_triggered gives once (trigger true, needle 0, buffer
\* and size as before), and set_untriggered twice gives the state it gives
\* once (trigger false, needle, buffer and size as before).
C21_IdempotentSetters ==
    /\ []SettersIdempotent
    /\ [][SetterRepeated]_vars

\* set_triggered has just acted on a RingBuffer that holds captured samples,
\* with a size that is not the constructor's.
C21_Witness ==
    /\ op.name = "set_triggered"
    /\ ringbuf_left.trigger
    /\ ringbuf_left.needle = 0
    /\ ringbuf_left.buffer[0] # 0
    /\ ringbuf_left.buffer[2] # 0
    /\ ringbuf_left.size = 1

\* A true pulse came and went between reads that see false: trigger flag,
\* needle and buffer of both channels are as the pulse found them and every
\* next() passes its input through.
MissedPulse ==
    op.name = "missed" =>
        /\ ~ringbuf_left.trigger
        /\ ~ringbuf_right.trigger
        /\ ringbuf_left.needle = op.arg.left.needle
        /\ ringbuf_right.needle = op.arg.right.needle
        /\ ringbuf_left.buffer = op.arg.left.buffer
        /\ ringbuf_right.buffer = op.arg.right.buffer
        /\ call.ch # "none" =>
               /\ ~call.trigger
               /\ call.ret = call.input
               /\ CallOutput[call.index + 1] = Tenths(call.input)

\* After a true-false-true glitch between reads that see true, no step takes
\* the needle back or drops the trigger flag.
GlitchKeepsNeedle ==
    (op.name = "glitched" /\ op'.name = "glitched") =>
        /\ ringbuf_left'.needle >= ringbuf_left.needle
        /\ ringbuf_right'.needle >= ringbuf_right.needle
        /\ ringbuf_left'.trigger
        /\ ringbuf_right'.trigger

\* The read that follows a missed pulse or a glitch finds no edge.
NoEdgeAfterPulse ==
    (op.name \in {"missed", "glitched"} /\ EdgeStep) => edge' = "none"

\* C22. Missed pulse: a write of the trigger to true and back to false
\* between two reads that both see false changes no trigger flag, needle or
\* buffer and the output stays pass-through; a true-false-true glitch
\* between two reads that both see true does not reset the needle.
C22_MissedPulse ==
    /\ []MissedPulse
    /\ [][GlitchKeepsNeedle]_vars
    /\ [][NoEdgeAfterPulse]_vars

\* A sample passed through by a block that read the trigger after a pulse
\* was missed, on a RingBuffer that still holds an earlier episode.
C22_Witness ==
    /\ op.name = "missed"
    /\ call.ch = "left"
    /\ call.ret = call.input
    /\ ~params.trigger
    /\ ~last_trigger_state
    /\ ringbuf_left.needle >= 2
    /\ ringbuf_left.buffer[0] # 0
    /\ ringbuf_left.buffer = op.arg.left.buffer

\* A looped sample played, with the needle past the size, by a block that
\* read the trigger after a glitch.
GlitchPlayed ==
    /\ op.name = "glitched"
    /\ TriggeredCall
    /\ edge = "none"
    /\ last_trigger_state
    /\ call.needle >= 2
    /\ call.ret # call.input

\* Between calls the remembered trigger is the flag of both channels; once a
\* block has read the trigger, that is the flag of both channels.
DetectorAgrees ==
    /\ pc = "idle" =>
           /\ last_trigger_state = ringbuf_left.trigger
           /\ last_trigger_state = ringbuf_right.trigger
    /\ InBlock =>
           /\ params.trigger = ringbuf_left.trigger
           /\ params.trigger = ringbuf_right.trigger

\* The step on which process returns.
ReturnStep == pc = "end" /\ pc' = "idle"

\* process returns remembering the trigger it read, which is the flag of
\* both channels.
ReturnRemembers ==
    ReturnStep =>
        /\ last_trigger_state' = params.trigger
        /\ ringbuf_left'.trigger = params.trigger
        /\ ringbuf_right'.trigger = params.trigger

\* C23. Edge-detector consistency: after every process call
\* last_trigger_state equals the trigger flag of the left and of the right
\* RingBuffer and the trigger read for that block.
C23_DetectorConsistent ==
    /\ []DetectorAgrees
    /\ [][ReturnRemembers]_vars

\* After a call that left both channels triggered mid-episode, while the
\* host has already written the trigger back to false.
C23_Witness ==
    /\ pc = "idle"
    /\ last_trigger_state
    /\ ringbuf_left.trigger
    /\ ringbuf_right.trigger
    /\ ringbuf_left.needle >= 2
    /\ ~trigger_of(raw.trigger)

\* The sample loops of MedianFilter::process are running.
MF_Consuming == median_filter.pc \in {"left", "right"}

\* C24. Window consistency: whenever process consumes samples, both median
\* filters have a window of last_window_size samples, which is the window
\* size reset_if_changed derived from the window_size parameter for that
\* block.
C24_WindowConsistent ==
    MF_Consuming =>
        /\ median_filter.left_filter.size = median_filter.last_window_size
        /\ median_filter.right_filter.size = median_filter.last_window_size
        /\ median_filter.last_window_size = median_filter.window_read

\* The step on which process is entered and calls reset_if_changed.
MF_ResetStep == median_filter.pc = "idle" /\ median_filter'.pc # "idle"

\* What reset_if_changed does on that step.
ResetOnlyOnChange ==
    MF_ResetStep =>
        LET w == window_size_of(median_filter.params.window_size) IN
        IF w # median_filter.last_window_size
            THEN /\ median_filter'.left_filter = Filter_new(w)
                 /\ median_filter'.right_filter = Filter_new(w)
                 /\ median_filter'.left_filter.samples = <<>>
                 /\ median_filter'.last_window_size = w
            ELSE /\ median_filter'.left_filter = median_filter.left_filter
                 /\ median_filter'.right_filter = median_filter.right_filter
                 /\ median_filter'.last_window_size =
                        median_filter.last_window_size

\* C25. reset_if_changed replaces both filters with fresh empty ones and
\* updates last_window_size exactly when the derived window size differs
\* from last_window_size; otherwise filters, with their samples, and
\* last_window_size are as before.
C25_ResetOnlyOnChange == [][ResetOnlyOnChange]_vars

\* A block just entered with both filters still holding the samples of the
\* blocks before, the raw value being 0.015, one of the two written values
\* that derive a window of 1.
C25_Witness ==
    /\ median_filter.pc = "left"
    /\ median_filter.i = 0
    /\ median_filter.window_read = 1
    /\ median_filter.last_window_size = 1
    /\ median_filter.left_filter.size = 1
    /\ median_filter.left_filter.samples # <<>>
    /\ median_filter.right_filter.samples # <<>>
    /\ median_filter.params.window_size = 15

\* The step is a set_parameter call on the clipper's parameters.
CL_SetStep == clipper' # clipper /\ clipper'.last.method = "set_parameter"

\* set_parameter with a valid index: an echo of the stored value stores
\* nothing and tells the host nothing; another value is stored, between a
\* begin_edit and an end_edit for that index.
EchoSuppressed ==
    (CL_SetStep /\ clipper_try_from(clipper'.last.index) # "Err") =>
        LET index == clipper'.last.index
            value == clipper'.last.value
            field == get_ref(clipper_try_from(index))
        IN
        IF f32_eq(clipper.raw[field], value)
            THEN /\ clipper'.raw = clipper.raw
                 /\ clipper'.notified = <<>>
            ELSE /\ clipper'.raw = [clipper.raw EXCEPT ![field] = value]
                 /\ clipper'.notified =
                        <<[call |-> "begin_edit", index |-> index],
                          [call |-> "end_edit", index |-> index]>>

\* get_parameter right after a set_parameter that stored returns the value.
StoredIsRead ==
    (/\ clipper.last.method = "set_parameter"
     /\ clipper.notified # <<>>
     /\ clipper'.last.method = "get_parameter"
     /\ clipper'.last.index = clipper.last.index) =>
        clipper'.last.ret = clipper.last.value

\* C26. Echo suppression: set_parameter(index, value) with a valid index and
\* the stored value (by f32 ==) stores nothing and sends neither begin_edit
\* nor end_edit; with another value it stores it, and a get_parameter(index)
\* that follows returns it.
C26_EchoSuppression ==
    /\ [][EchoSuppressed]_vars
    /\ [][StoredIsRead]_vars

\* An echo of a value stored by an earlier call: nothing sent.
C26_Witness ==
    /\ clipper.last.method = "set_parameter"
    /\ clipper.last.index = 2
    /\ clipper.last.value = 5
    /\ clipper.raw.clip_level = 5
    /\ clipper.notified = <<>>

\* The indices of a table of count entries.
Valid(count) == 0 .. (count - 1)

\* try_from and the conversion to i32 are inverse on the table's indices, for
\* the clipper and for the stutter, and try_from fails on every other index.
IndexRoundTrip ==
    /\ \A x \in Valid(CLIPPER_COUNT) :
           /\ clipper_try_from(x) # "Err"
           /\ clipper_into_i32(clipper_try_from(x)) = x
    /\ \A x \in Valid(STUTTER_COUNT) :
           /\ try_from(x) # "Err"
           /\ stutter_into_i32(try_from(x)) = x
    /\ \A x \in CL_Indices \ Valid(CLIPPER_COUNT) : clipper_try_from(x) = "Err"
    /\ \A x \in CL_Indices \ Valid(STUTTER_COUNT) : try_from(x) = "Err"

\* What the last call returned and sent, when its index is not in the table.
InvalidIndexAnswer ==
    (/\ clipper.last.method # "default"
     /\ clipper.last.index \notin Valid(CLIPPER_COUNT)) =>
        /\ clipper.notified = <<>>
        /\ clipper.last.method = "get_parameter" => clipper.last.ret = 0
        /\ clipper.last.method = "can_be_automated" => ~clipper.last.ok
        /\ clipper.last.method \in {"get_parameter_name", "get_parameter_text",
                                    "get_parameter_label"} =>
               clipper.last.text = ""

\* A call with an index that is not in the table stores nothing.
InvalidIndexFrame ==
    clipper'.last.index \notin Valid(CLIPPER_COUNT) =>
        clipper'.raw = clipper.raw

\* C27. Parameter index handling: for every index in 0..COUNT-1 try_from
\* succeeds and converts back to the index; for every other index
\* set_parameter stores nothing and notifies nobody, get_parameter returns
\* 0.0, can_be_automated returns false and name, text and label are empty.
C27_IndexHandling ==
    /\ []IndexRoundTrip
    /\ []InvalidIndexAnswer
    /\ [][InvalidIndexFrame]_vars

\* set_parameter with index COUNT on parameters that are no longer the
\* defaults: nothing sent.
C27_Witness ==
    /\ clipper.last.method = "set_parameter"
    /\ clipper.last.index = CLIPPER_COUNT
    /\ clipper.last.value = 5
    /\ clipper.notified = <<>>
    /\ clipper.raw.wet_dry = 0
    /\ clipper.raw.post_amplify = 10

=============================================================================
